---- MODULE Spec2Model ----
(***************************************************************************)
(* ShoreSquad (src/js/app.js): the application state of class ShoreSquad   *)
(* (state.events, state.filters.active, state.weather), the DOM it writes  *)
(* (event cards, weather widget, forecast grid, loading indicator) and its *)
(* handlers: init, initializeWeatherWidget/fetchNEAWeather, loadEvents,    *)
(* filterEvents, joinEvent and loadMoreEvents.                             *)
(*                                                                         *)
(* One action is one macrotask of the browser's event loop: a handler runs *)
(* from its start, or from the settlement of the promise or timer it is    *)
(* awaiting, up to its next await on a timer or on the network.  Awaits on *)
(* already settled values (await this.setupEventListeners(), the return of *)
(* an async method) only yield to the microtask queue, which no click,     *)
(* timer or network event can enter, so they do not end an action.         *)
(***************************************************************************)
EXTENDS Integers, Sequences, FiniteSets, TLC

VARIABLES
    events,        \* this.state.events
    activeFilter,  \* this.state.filters.active
    rendered,      \* the event list last passed to renderEvents
    cards,         \* the .event-card elements of #events-grid, as the events they show
    weather,       \* this.state.weather
    weatherDom,    \* contents of #weather-temp / #weather-condition
    forecastGrid,  \* children of .forecast-grid
    loadingShown,  \* #loading-indicator has class "show"
    initPc,        \* position of the running call of init()
    pendingMore,   \* loadMoreEvents() calls waiting on their 1000 ms timer
    startedMore,   \* loadMoreEvents() calls made so far
    joinCalls,     \* joinEvent() calls made so far
    eventsLoaded,  \* loadEvents() has completed at least once (history)
    lastGood,      \* weather object of the latest attempt that succeeded (history)
    response,      \* what the provider answered to the running init() (history)
    last           \* the command executed by the latest step (history)

vars == <<events, activeFilter, rendered, cards, weather, weatherDom, forecastGrid,
          loadingShown, initPc, pendingMore, startedMore, joinCalls,
          eventsLoaded, lastGood, response, last>>

catalogVars == <<events, activeFilter, rendered>>

----------------------------------------------------------------------------
(* Bounds of the model *)

MaxLoadMore == 2
MaxJoin == 2

\* longest condition text, in words, of the classification specification
MaxWords == 3

\* longest list of periods of the periods specification
MaxPeriods == 5

----------------------------------------------------------------------------
(* Events *)

Event(i, c, p) == [id |-> i, category |-> c, participants |-> p]

\* const mockEvents = [...] in loadEvents
mockEvents == << Event(1, "weekend", 18), Event(2, "today", 8), Event(3, "nearby", 15) >>

\* const newEvents = [...] in loadMoreEvents
newEvents == << Event(4, "weekend", 6), Event(5, "nearby", 20) >>

\* data-filter values of the .filter-btn buttons: "all", a tag that events of
\* both lists carry, and "upcoming", a tag that no event carries
FilterTags == {"all", "weekend", "upcoming"}

\* ids passed to joinEvent: 2 is a mock event, 4 an event of loadMoreEvents,
\* 9 an id no event has
JoinIds == {2, 4, 9}

\* Array.prototype.filter(event => event.category === tag)
RECURSIVE filterByCategory(_, _)
filterByCategory(evs, tag) ==
    IF evs = << >> THEN << >>
    ELSE IF Head(evs).category = tag
         THEN <<Head(evs)>> \o filterByCategory(Tail(evs), tag)
         ELSE filterByCategory(Tail(evs), tag)

\* variant: the filter is not applied again
getFilteredEventsUnfiltered(evs, filter) == evs

\* getFilteredEvents()
getFilteredEvents(evs, filter) ==
    IF filter = "all" THEN evs ELSE filterByCategory(evs, filter)

\* variant: filterEvents shows every event whatever the tag
filterEventsViewUnfiltered(evs, filter) == evs

\* the filtering of filterEvents(filter)
filterEventsView(evs, filter) ==
    IF filter # "all" THEN filterByCategory(evs, filter) ELSE evs

\* variant: an unknown id falls back to the first event
findOrFirst(evs, eventId) ==
    IF \E i \in 1..Len(evs) : evs[i].id = eventId
    THEN CHOOSE i \in 1..Len(evs) :
            /\ evs[i].id = eventId
            /\ \A j \in 1..(i-1) : evs[j].id # eventId
    ELSE IF Len(evs) > 0 THEN 1 ELSE 0

\* this.state.events.find(e => e.id === eventId): index of the first match, 0 if none
find(evs, eventId) ==
    IF \E i \in 1..Len(evs) : evs[i].id = eventId
    THEN CHOOSE i \in 1..Len(evs) :
            /\ evs[i].id = eventId
            /\ \A j \in 1..(i-1) : evs[j].id # eventId
    ELSE 0

\* variant: the count goes up by 2
incrementParticipantsTwice(evs, i) ==
    [evs EXCEPT ![i].participants = @ + 2]

\* variant: a second join of the same event is merged with the first
incrementParticipantsOnce(evs, i) ==
    [evs EXCEPT ![i].participants = IF @ = mockEvents[1].participants THEN @ + 1 ELSE @]

\* event.participants += 1
incrementParticipants(evs, i) ==
    [evs EXCEPT ![i].participants = @ + 1]

\* variant: the new events are put in front (unshift)
unshiftEvents(evs, more) == more \o evs

\* this.state.events.push(...newEvents)
pushEvents(evs, more) == evs \o more

\* this.state.events = mockEvents
storeLoadedEvents(evs, loaded) == loaded

\* the list loadEvents hands to renderEvents
loadEventsView(loaded, filter) == loaded

\* the filter after loadEvents
loadEventsFilter(filter) == filter

\* the cards of #events-grid after renderEvents(evs): every card but the
\* first is removed, the first card (if any) is updated to evs[1] by
\* updateEventCard, and a card is created and appended for each other event.
\* The markup of the page is not part of the sources; the grid is taken to
\* hold nothing but event cards.
renderEvents(grid, evs) ==
    LET firstCard == IF grid = << >> THEN << >> ELSE <<grid[1]>>
    IN  IF evs = << >> THEN firstCard
        ELSE IF firstCard = << >> THEN evs
        ELSE <<evs[1]>> \o Tail(evs)

----------------------------------------------------------------------------
(* History of the latest command *)

\* op: "join", "filter" or "other"; id, n, base: the run of joinEvent calls;
\* tag: the argument of filterEvents; note: the notification the step showed
NoCmd == [op |-> "other", id |-> 0, n |-> 0, base |-> 0, tag |-> "", note |-> "none"]

\* a step that shows a notification
Notified(note) == [NoCmd EXCEPT !.note = note]

\* a filterEvents(tag) step
Filtered(tag) == [NoCmd EXCEPT !.op = "filter", !.tag = tag]

\* number of joinEvent calls on the same id that ran back to back
JoinStreak(eventId, evs) ==
    IF last.op = "join" /\ last.id = eventId
    THEN [NoCmd EXCEPT !.op = "join", !.id = eventId, !.n = last.n + 1,
                       !.base = last.base]
    ELSE [NoCmd EXCEPT !.op = "join", !.id = eventId, !.n = 1,
                       !.base = IF find(evs, eventId) = 0 THEN 0
                                ELSE evs[find(evs, eventId)].participants]

----------------------------------------------------------------------------
(* Texts.  A string is the sequence of its space-separated words; a value  *)
(* read from the payload where a string is expected is a record with its   *)
(* JavaScript type: t = "str" (s holds the words), "null" (absent, null or *)
(* undefined) or "num" (a non-zero number, i.e. a truthy non-string).      *)

Str(ws) == [t |-> "str", s |-> ws]
Null == [t |-> "null", s |-> << >>]
NonString == [t |-> "num", s |-> << >>]

\* JavaScript truthiness: '' , null and undefined are falsy
Truthy(v) == (v.t = "str" /\ v.s # << >>) \/ v.t = "num"

\* a || b
Or(a, b) == IF Truthy(a) THEN a ELSE b

\* String.prototype.toLowerCase, word by word
LowerWord(w) ==
    CASE w = "Thundery" -> "thundery"
      [] w = "Showers"  -> "showers"
      [] w = "Heavy"    -> "heavy"
      [] w = "Rain"     -> "rain"
      [] w = "Partly"   -> "partly"
      [] w = "Cloudy"   -> "cloudy"
      [] w = "Fair"     -> "fair"
      [] w = "Sunny"    -> "sunny"
      [] w = "Hazy"     -> "hazy"
      [] w = "Overcast" -> "overcast"
      [] w = "Windy"    -> "windy"
      [] w = "Light"    -> "light"
      [] OTHER          -> w

toLowerCase(ws) == [i \in 1..Len(ws) |-> LowerWord(ws[i])]

\* the keywords of getWeatherEmoji, extractRainInfo and shortenForecast that
\* occur inside a lower-case word
WordParts(w) ==
    CASE w = "thundery"      -> {"thunder", "thundery"}
      [] w = "thunderstorms" -> {"thunder", "storm"}
      [] w = "storm"         -> {"storm"}
      [] w = "heavy"         -> {"heavy"}
      [] w = "rain"          -> {"rain"}
      [] w = "rainy"         -> {"rain"}
      [] w = "showers"       -> {"showers"}
      [] w = "partly"        -> {"partly"}
      [] w = "cloudy"        -> {"cloudy"}
      [] w = "overcast"      -> {"overcast"}
      [] w = "fair"          -> {"fair"}
      [] w = "sunny"         -> {"sunny"}
      [] w = "hazy"          -> {"hazy"}
      [] w = "haze"          -> {"haze"}
      [] OTHER               -> {}

\* text.includes(k) for a keyword k without a space
includes(text, k) == \E i \in 1..Len(text) : k \in WordParts(text[i])

\* text.includes("k1 k2"): a word ending in k1 followed by a word starting
\* with k2 (in the vocabulary above a word that contains "heavy" ends with
\* it, and a word that contains "rain" or "showers" starts with it)
includes2(text, k1, k2) ==
    \E i \in 1..(Len(text) - 1) :
        k1 \in WordParts(text[i]) /\ k2 \in WordParts(text[i+1])

\* getWeatherEmoji with the generic rain rule tested before the heavy rain rule
getWeatherEmojiRainFirst(forecast) ==
    LET text == toLowerCase(forecast) IN
    IF includes(text, "thunder") \/ includes(text, "storm") THEN "stormy"
    ELSE IF includes(text, "rain") \/ includes(text, "showers") THEN "light-rain"
    ELSE IF includes2(text, "heavy", "rain") \/ includes2(text, "heavy", "showers")
         THEN "heavy-rain"
    ELSE IF includes(text, "cloudy") /\ includes(text, "partly") THEN "partly-cloudy"
    ELSE IF includes(text, "cloudy") \/ includes(text, "overcast") THEN "cloudy"
    ELSE IF includes(text, "fair") \/ includes(text, "sunny") THEN "sunny"
    ELSE IF includes(text, "hazy") \/ includes(text, "haze") THEN "haze"
    ELSE "partly-sunny"

\* getWeatherEmoji with the cloudy rule tested before the partly cloudy rule
getWeatherEmojiCloudyFirst(forecast) ==
    LET text == toLowerCase(forecast) IN
    IF includes(text, "thunder") \/ includes(text, "storm") THEN "stormy"
    ELSE IF includes2(text, "heavy", "rain") \/ includes2(text, "heavy", "showers")
         THEN "heavy-rain"
    ELSE IF includes(text, "rain") \/ includes(text, "showers") THEN "light-rain"
    ELSE IF includes(text, "cloudy") \/ includes(text, "overcast") THEN "cloudy"
    ELSE IF includes(text, "cloudy") /\ includes(text, "partly") THEN "partly-cloudy"
    ELSE IF includes(text, "fair") \/ includes(text, "sunny") THEN "sunny"
    ELSE IF includes(text, "hazy") \/ includes(text, "haze") THEN "haze"
    ELSE "partly-sunny"

\* getWeatherEmoji(forecast), for a string
getWeatherEmoji(forecast) ==
    LET text == toLowerCase(forecast) IN
    IF includes(text, "thunder") \/ includes(text, "storm") THEN "stormy"
    ELSE IF includes2(text, "heavy", "rain") \/ includes2(text, "heavy", "showers")
         THEN "heavy-rain"
    ELSE IF includes(text, "rain") \/ includes(text, "showers") THEN "light-rain"
    ELSE IF includes(text, "cloudy") /\ includes(text, "partly") THEN "partly-cloudy"
    ELSE IF includes(text, "cloudy") \/ includes(text, "overcast") THEN "cloudy"
    ELSE IF includes(text, "fair") \/ includes(text, "sunny") THEN "sunny"
    ELSE IF includes(text, "hazy") \/ includes(text, "haze") THEN "haze"
    ELSE "partly-sunny"

\* extractRainInfo(forecast), for a string
extractRainInfo(forecast) ==
    LET text == toLowerCase(forecast) IN
    IF includes(text, "thunder") \/ includes(text, "storm")
        THEN "Thunderstorms expected"
    ELSE IF includes2(text, "heavy", "rain") \/ includes2(text, "heavy", "showers")
        THEN "Heavy rain likely"
    ELSE IF includes(text, "showers") \/ includes(text, "rain")
        THEN "Showers possible"
    ELSE IF includes(text, "cloudy") \/ includes(text, "overcast")
        THEN "May see some clouds"
    ELSE "Good beach weather!"

\* shortenForecast(forecast), for a non-empty string
shortenForecast(forecast) ==
    LET text == toLowerCase(forecast) IN
    IF includes(text, "thundery") THEN <<"Thundery">>
    ELSE IF includes(text, "heavy") THEN <<"Heavy", "Rain">>
    ELSE IF includes(text, "showers") THEN <<"Showers">>
    ELSE IF includes(text, "cloudy") THEN <<"Cloudy">>
    ELSE IF includes(text, "rain") THEN <<"Rainy">>
    ELSE IF includes(text, "fair") THEN <<"Fair">>
    ELSE SubSeq(forecast, 1, IF Len(forecast) < 2 THEN Len(forecast) ELSE 2)

\* a start timestamp: absent, or a date string with its local hour (hour is
\* -1 for a string new Date() cannot parse, whose getHours() is NaN)
NoTime == [present |-> FALSE, hour |-> 0]
At(h) == [present |-> TRUE, hour |-> h]

\* getPeriodName with the evening band lasting until midnight
getPeriodNameLateEvening(timestamp) ==
    IF ~timestamp.present THEN "Soon"
    ELSE LET hour == timestamp.hour IN
         IF hour >= 6 /\ hour < 12 THEN "Morning"
         ELSE IF hour >= 12 /\ hour < 18 THEN "Afternoon"
         ELSE IF hour >= 18 /\ hour < 24 THEN "Evening"
         ELSE "Night"

\* getPeriodName(timestamp)
getPeriodName(timestamp) ==
    IF ~timestamp.present THEN "Soon"
    ELSE LET hour == timestamp.hour IN
         IF hour >= 6 /\ hour < 12 THEN "Morning"
         ELSE IF hour >= 12 /\ hour < 18 THEN "Afternoon"
         ELSE IF hour >= 18 /\ hour < 21 THEN "Evening"
         ELSE "Night"

----------------------------------------------------------------------------
(* The forecast payload of the NEA endpoint *)

\* temperature / relative_humidity: absent, or {low, high}; 0 stands for a
\* low or high that is absent, null or 0, which `||` treats alike
NoRange == [present |-> FALSE, low |-> 0, high |-> 0]
Range(l, h) == [present |-> TRUE, low |-> l, high |-> h]

\* item.general
General(f, t, h) == [forecast |-> f, temperature |-> t, relative_humidity |-> h]
NoGeneral == General(Null, NoRange, NoRange)

\* an entry of item.periods: null, or {time: {start}, regions: {east, central}}
Period(st, e, c) == [isNull |-> FALSE, start |-> st, east |-> e, central |-> c]
NullPeriod == [isNull |-> TRUE, start |-> NoTime, east |-> Null, central |-> Null]

\* the body of the response: items absent (hasItems = FALSE) or a list
Data(its) == [hasItems |-> TRUE, items |-> its]
NoItems == [hasItems |-> FALSE, items |-> << >>]
Item(g, ps) == [general |-> g, periods |-> ps]

\* const tempLow = temperature.low || 24 and its siblings
orDefault(n, d) == IF n # 0 THEN n ELSE d

\* Math.round((tempLow + tempHigh) / 2)
avgTemp(tempLow, tempHigh) == (tempLow + tempHigh + 1) \div 2

\* this.state.weather = null, given the shape of a weather object
NoWeather ==
    [set |-> FALSE, temperature |-> 0, tempLow |-> 0, tempHigh |-> 0,
     condition |-> << >>, rain |-> "", emoji |-> "",
     humLow |-> 0, humHigh |-> 0, periods |-> << >>]

\* fetchNEAWeather() throws: items absent or empty, or general.forecast is a
\* truthy non-string (forecast.toLowerCase is not a function)
fetchNEAWeatherThrows(data) ==
    \/ ~data.hasItems
    \/ Len(data.items) = 0
    \/ Or(data.items[1].general.forecast, Str(<<"No", "forecast", "available">>)).t # "str"

\* the object fetchNEAWeather() returns
fetchNEAWeather(data) ==
    LET item == data.items[1]
        generalForecast == item.general
        forecast == Or(generalForecast.forecast, Str(<<"No", "forecast", "available">>)).s
        temperature == generalForecast.temperature
        humidity == generalForecast.relative_humidity
        tempLow == orDefault(temperature.low, 24)
        tempHigh == orDefault(temperature.high, 32)
    IN  [set |-> TRUE,
         temperature |-> avgTemp(tempLow, tempHigh),
         tempLow |-> tempLow, tempHigh |-> tempHigh,
         condition |-> forecast,
         rain |-> extractRainInfo(forecast),
         emoji |-> getWeatherEmoji(forecast),
         humLow |-> orDefault(humidity.low, 60),
         humHigh |-> orDefault(humidity.high, 95),
         periods |-> item.periods]

\* the region text with central tried before east
regionTextCentralFirst(period) == Or(period.central, Or(period.east, Str(<<"Fair">>)))

\* period.regions?.east || period.regions?.central || 'Fair'
regionText(period) == Or(period.east, Or(period.central, Str(<<"Fair">>)))

\* the forEach callback of updateForecastDisplay throws on this period:
\* period.time of null, or forecast.toLowerCase of a non-string
periodThrows(period) == period.isNull \/ regionText(period).t # "str"

\* the div.forecast-day built for a period
forecastDay(period) ==
    LET forecast == regionText(period).s IN
    [name |-> getPeriodName(period.start),
     icon |-> getWeatherEmoji(forecast),
     condition |-> shortenForecast(forecast)]

\* the paragraph shown when there are no periods
forecastPlaceholder ==
    [name |-> "", icon |-> "", condition |-> <<"24-hour", "forecast", "loading...">>]

\* periods.slice(0, 4)
slice4(periods) == SubSeq(periods, 1, IF Len(periods) < 4 THEN Len(periods) ELSE 4)

\* index of the first period of slice(0, 4) on which the callback throws, 0 if none
firstThrowing(periods) ==
    LET ps == slice4(periods) IN
    IF \E i \in 1..Len(ps) : periodThrows(ps[i])
    THEN CHOOSE i \in 1..Len(ps) :
            periodThrows(ps[i]) /\ \A j \in 1..(i-1) : ~periodThrows(ps[j])
    ELSE 0

updateForecastDisplayThrows(periods) == firstThrowing(periods) # 0

\* .forecast-grid after updateForecastDisplay(periods): emptied, then one card
\* per period up to the one that throws, or the placeholder
updateForecastDisplay(periods) ==
    IF Len(periods) > 0
    THEN LET ps == slice4(periods)
             k == IF firstThrowing(periods) = 0 THEN Len(ps)
                  ELSE firstThrowing(periods) - 1
         IN  [i \in 1..k |-> forecastDay(ps[i])]
    ELSE <<forecastPlaceholder>>

\* #weather-temp and #weather-condition
WidgetInitial == [state |-> "initial", emoji |-> "", temperature |-> 0,
                  tempLow |-> 0, tempHigh |-> 0, condition |-> << >>, rain |-> ""]
\* showWeatherLoading()
showWeatherLoading == [WidgetInitial EXCEPT !.state = "loading"]
\* showWeatherError()
showWeatherError == [WidgetInitial EXCEPT !.state = "error"]
\* the elements updateWeatherDisplay(weather) writes
updateWeatherDisplay(w) ==
    [state |-> "data", emoji |-> w.emoji, temperature |-> w.temperature,
     tempLow |-> w.tempLow, tempHigh |-> w.tempHigh,
     condition |-> w.condition, rain |-> w.rain]

\* this.state.weather after showWeatherError()
weatherAfterError(w) == w

\* .forecast-grid after showWeatherError()
gridAfterError(grid) == grid

----------------------------------------------------------------------------
(* Responses of the weather provider *)

ThunderyPayload ==
    Data(<< Item(General(Str(<<"Thundery", "Showers">>), Range(25, 31), Range(70, 90)),
                 << Period(At(7), Str(<<"Showers">>), Null) >>) >>)

FairPayload ==
    Data(<< Item(General(Str(<<"Fair">>), NoRange, NoRange),
                 << Period(At(13), Null, Str(<<"Partly", "Cloudy">>)),
                    Period(At(19), Str(<<"Fair">>), Null) >>) >>)

\* a payload whose second period is null
BrokenPeriodPayload ==
    Data(<< Item(General(Str(<<"Cloudy">>), Range(26, 30), NoRange),
                 << Period(At(1), Str(<<"Heavy", "Rain">>), Null), NullPeriod >>) >>)

WeatherData == {NoItems, Data(<< >>), ThunderyPayload, BrokenPeriodPayload}

\* an answer of the provider: kind is "none" (no answer yet), "reject" (fetch
\* rejected), "notok" (!response.ok), "badjson" (response.json() rejects) or
\* "json" (response.json() resolves with data)
Answer(kind, data) == [kind |-> kind, data |-> data]
NoResponse == Answer("none", NoItems)

\* the answers with response.ok
OkResponses == {Answer("badjson", NoItems)} \cup {Answer("json", d) : d \in WeatherData}

\* variant: initializeWeatherWidget() without its try/catch
initializeWeatherWidgetRethrows(failed) == failed

\* an error of the weather attempt escapes initializeWeatherWidget(): never,
\* its try/catch handles every failure of the fetch and of the display
initializeWeatherWidgetThrows(failed) == FALSE

----------------------------------------------------------------------------
(* State after `new ShoreSquad()`: the constructor has called init(), which *)
(* has shown the loading indicator, installed the listeners and started the *)
(* weather fetch.                                                           *)

Init ==
    /\ events = << >>
    /\ activeFilter = "all"
    /\ rendered = << >>
    /\ cards = << >>
    /\ weather = NoWeather
    /\ weatherDom = showWeatherLoading
    /\ forecastGrid = << >>
    /\ loadingShown = TRUE
    /\ initPc = "fetch"
    /\ pendingMore = 0
    /\ startedMore = 0
    /\ joinCalls = 0
    /\ eventsLoaded = FALSE
    /\ lastGood = NoWeather
    /\ response = NoResponse
    /\ last = NoCmd

\* a further call of init(), made once the previous one has finished, up to
\* `await fetch(...)`: showLoading(), setupEventListeners(), showWeatherLoading()
init ==
    /\ initPc = "done"
    /\ loadingShown' = TRUE
    /\ weatherDom' = showWeatherLoading
    /\ initPc' = "fetch"
    /\ response' = NoResponse
    /\ last' = NoCmd
    /\ UNCHANGED <<events, activeFilter, rendered, cards, weather, forecastGrid,
                   pendingMore, startedMore, joinCalls>>
    /\ UNCHANGED <<eventsLoaded, lastGood>>

\* loadEvents(), run by init() once initializeWeatherWidget() has returned;
\* init() then arms the 1000 ms timer of hideLoading()
loadEvents ==
    /\ events' = storeLoadedEvents(events, mockEvents)
    /\ rendered' = loadEventsView(mockEvents, activeFilter)
    /\ cards' = renderEvents(cards, loadEventsView(mockEvents, activeFilter))
    /\ activeFilter' = loadEventsFilter(activeFilter)
    /\ eventsLoaded' = TRUE
    /\ initPc' = "timer"
    /\ UNCHANGED loadingShown

\* the catch branch of init(): hideLoading() and showError(), no loadEvents()
initCatch ==
    /\ loadingShown' = FALSE
    /\ initPc' = "done"
    /\ UNCHANGED <<events, rendered, cards, activeFilter, eventsLoaded>>

\* init() after `await this.initializeWeatherWidget()`; failed: the weather
\* attempt ended in the catch branch of initializeWeatherWidget()
initResumes(failed) ==
    IF initializeWeatherWidgetThrows(failed)
    THEN initCatch /\ last' = Notified("init-error")
    ELSE loadEvents /\ last' = Notified(IF failed THEN "weather-error" ELSE "none")

\* the catch branch of initializeWeatherWidget()
weatherCatch(grid) ==
    /\ weather' = weatherAfterError(weather)
    /\ weatherDom' = showWeatherError
    /\ forecastGrid' = gridAfterError(grid)

\* fetch() rejects (network error)
fetchRejects ==
    /\ initPc = "fetch"
    /\ response' = Answer("reject", NoItems)
    /\ weatherCatch(forecastGrid)
    /\ initResumes(TRUE)
    /\ UNCHANGED <<pendingMore, startedMore, joinCalls>>
    /\ UNCHANGED lastGood

\* fetch() resolves with !response.ok
fetchNotOk ==
    /\ initPc = "fetch"
    /\ response' = Answer("notok", NoItems)
    /\ weatherCatch(forecastGrid)
    /\ initResumes(TRUE)
    /\ UNCHANGED <<pendingMore, startedMore, joinCalls>>
    /\ UNCHANGED lastGood

\* fetch() resolves with response.ok and the body resp: fetchNEAWeather awaits
\* response.json()
fetchOk(resp) ==
    /\ initPc = "fetch"
    /\ initPc' = "json"
    /\ response' = resp
    /\ last' = NoCmd
    /\ UNCHANGED <<events, activeFilter, rendered, cards, weather, weatherDom, forecastGrid,
                   loadingShown, pendingMore, startedMore, joinCalls>>
    /\ UNCHANGED <<eventsLoaded, lastGood>>

\* response.json() rejects (the body is not JSON)
jsonRejects ==
    /\ initPc = "json"
    /\ response.kind = "badjson"
    /\ weatherCatch(forecastGrid)
    /\ initResumes(TRUE)
    /\ UNCHANGED <<pendingMore, startedMore, joinCalls>>
    /\ UNCHANGED <<lastGood, response>>

\* response.json() resolves with the body: the rest of fetchNEAWeather(), then
\* updateWeatherDisplay() and updateForecastDisplay() in initializeWeatherWidget()
jsonResolves ==
    /\ initPc = "json"
    /\ response.kind = "json"
    /\ LET data == response.data IN
       IF fetchNEAWeatherThrows(data)
       THEN weatherCatch(forecastGrid) /\ initResumes(TRUE) /\ UNCHANGED lastGood
       ELSE LET weatherData == fetchNEAWeather(data) IN
            IF updateForecastDisplayThrows(weatherData.periods)
            THEN /\ weather' = weatherAfterError(weatherData)
                 /\ weatherDom' = showWeatherError
                 /\ forecastGrid' = gridAfterError(updateForecastDisplay(weatherData.periods))
                 /\ initResumes(TRUE)
                 /\ UNCHANGED lastGood
            ELSE /\ weather' = weatherData
                 /\ weatherDom' = updateWeatherDisplay(weatherData)
                 /\ forecastGrid' = updateForecastDisplay(weatherData.periods)
                 /\ initResumes(FALSE)
                 /\ lastGood' = weatherData
    /\ UNCHANGED <<pendingMore, startedMore, joinCalls, response>>

\* the setTimeout callback of init(): hideLoading()
hideLoadingTimer ==
    /\ initPc = "timer"
    /\ loadingShown' = FALSE
    /\ initPc' = "done"
    /\ last' = NoCmd
    /\ response' = NoResponse
    /\ UNCHANGED <<events, activeFilter, rendered, cards, weather, weatherDom, forecastGrid,
                   pendingMore, startedMore, joinCalls>>
    /\ UNCHANGED <<eventsLoaded, lastGood>>

\* filterEvents(filter)
filterEvents(filter) ==
    /\ activeFilter' = filter
    /\ rendered' = filterEventsView(events, filter)
    /\ cards' = renderEvents(cards, filterEventsView(events, filter))
    /\ last' = Filtered(filter)
    /\ UNCHANGED <<events, weather, weatherDom, forecastGrid, loadingShown, initPc,
                   pendingMore, startedMore, joinCalls>>
    /\ UNCHANGED <<eventsLoaded, lastGood, response>>

\* joinEvent(eventId)
joinEvent(eventId) ==
    /\ joinCalls < MaxJoin
    /\ joinCalls' = joinCalls + 1
    /\ LET i == find(events, eventId) IN
       IF i = 0
       THEN /\ UNCHANGED <<events, rendered, cards>>
            /\ last' = JoinStreak(eventId, events)
       ELSE /\ events' = incrementParticipants(events, i)
            /\ rendered' = getFilteredEvents(events', activeFilter)
            /\ cards' = renderEvents(cards, getFilteredEvents(events', activeFilter))
            /\ last' = [JoinStreak(eventId, events) EXCEPT !.note = "success"]
    /\ UNCHANGED <<activeFilter, weather, weatherDom, forecastGrid, loadingShown,
                   initPc, pendingMore, startedMore>>
    /\ UNCHANGED <<eventsLoaded, lastGood, response>>

\* variant: loadMoreEvents() empties the list while it waits
loadMoreEventsClearing ==
    /\ startedMore < MaxLoadMore
    /\ startedMore' = startedMore + 1
    /\ pendingMore' = pendingMore + 1
    /\ loadingShown' = TRUE
    /\ rendered' = << >>
    /\ cards' = << >>
    /\ last' = NoCmd
    /\ UNCHANGED <<events, activeFilter, weather, weatherDom, forecastGrid,
                   initPc, joinCalls>>
    /\ UNCHANGED <<eventsLoaded, lastGood, response>>

\* loadMoreEvents() up to its await: showLoading(), then the 1000 ms timer
loadMoreEvents ==
    /\ startedMore < MaxLoadMore
    /\ startedMore' = startedMore + 1
    /\ pendingMore' = pendingMore + 1
    /\ loadingShown' = TRUE
    /\ last' = NoCmd
    /\ UNCHANGED <<events, activeFilter, rendered, cards, weather, weatherDom, forecastGrid,
                   initPc, joinCalls>>
    /\ UNCHANGED <<eventsLoaded, lastGood, response>>

\* variant: the resumed loadMoreEvents() appends to the list as first loaded,
\* a copy taken before the commands that ran during its delay
loadMoreResumesFromCopy ==
    /\ pendingMore > 0
    /\ pendingMore' = pendingMore - 1
    /\ events' = pushEvents(mockEvents, newEvents)
    /\ rendered' = getFilteredEvents(events', activeFilter)
    /\ cards' = renderEvents(cards, getFilteredEvents(events', activeFilter))
    /\ loadingShown' = FALSE
    /\ last' = Notified("info")
    /\ UNCHANGED <<activeFilter, weather, weatherDom, forecastGrid, initPc,
                   startedMore, joinCalls>>
    /\ UNCHANGED <<eventsLoaded, lastGood, response>>

\* loadMoreEvents() after its await: push, render, hideLoading(), notification
loadMoreResumes ==
    /\ pendingMore > 0
    /\ pendingMore' = pendingMore - 1
    /\ events' = pushEvents(events, newEvents)
    /\ rendered' = getFilteredEvents(events', activeFilter)
    /\ cards' = renderEvents(cards, getFilteredEvents(events', activeFilter))
    /\ loadingShown' = FALSE
    /\ last' = Notified("info")
    /\ UNCHANGED <<activeFilter, weather, weatherDom, forecastGrid, initPc,
                   startedMore, joinCalls>>
    /\ UNCHANGED <<eventsLoaded, lastGood, response>>

Next ==
    \/ init
    \/ fetchRejects
    \/ fetchNotOk
    \/ \E resp \in OkResponses : fetchOk(resp)
    \/ jsonRejects
    \/ jsonResolves
    \/ hideLoadingTimer
    \/ \E filter \in FilterTags : filterEvents(filter)
    \/ \E eventId \in JoinIds : joinEvent(eventId)
    \/ loadMoreEvents
    \/ loadMoreResumes

Spec == Init /\ [][Next]_vars

\* the timers of the program fire and its handlers resume; nothing obliges
\* the weather provider to answer
FairSpec ==
    /\ Spec
    /\ WF_vars(loadMoreResumes)
    /\ WF_vars(hideLoadingTimer)

----------------------------------------------------------------------------
(* Normalization of one forecast payload: the program has received a 2xx   *)
(* response to the fetch of its first init() and is about to read a body   *)
(* taken from the payloads below.                                          *)

\* general.forecast: absent, a text, or a number
NormForecasts == {Null, Str(<<"Fair">>), Str(<<"Thundery", "Showers">>), NonString}

\* general.temperature: absent, low < high, low > high, low absent
NormTemperatures == {NoRange, Range(25, 31), Range(31, 25), Range(0, 30)}

\* general.relative_humidity: absent, low < high, low > high
NormHumidities == {NoRange, Range(70, 90), Range(90, 70)}

\* item.periods: none, one, one followed by null, one with a number as text
NormPeriods ==
    { << >>,
      << Period(At(7), Str(<<"Showers">>), Null) >>,
      << Period(At(7), Str(<<"Showers">>), Null), NullPeriod >>,
      << Period(NoTime, NonString, Null) >> }

NormPayloads ==
    { Data(<< Item(General(f, t, h), ps) >>) :
        f \in NormForecasts, t \in NormTemperatures, h \in NormHumidities,
        ps \in NormPeriods }

NormInit ==
    /\ events = << >>
    /\ activeFilter = "all"
    /\ rendered = << >>
    /\ cards = << >>
    /\ weather = NoWeather
    /\ weatherDom = showWeatherLoading
    /\ forecastGrid = << >>
    /\ loadingShown = TRUE
    /\ initPc = "json"
    /\ pendingMore = 0
    /\ startedMore = 0
    /\ joinCalls = 0
    /\ eventsLoaded = FALSE
    /\ lastGood = NoWeather
    /\ response \in {Answer("json", d) : d \in NormPayloads \cup {FairPayload}}
    /\ last = NoCmd

NormNext == jsonResolves

NormSpec == NormInit /\ [][NormNext]_vars

----------------------------------------------------------------------------
(* Classification of condition texts: the page has received a body whose    *)
(* general.forecast and whose only period's east text are the same text    *)

\* the words of the condition texts, in the spellings the provider may send
Vocabulary ==
    {"Thundery", "storm", "Heavy", "Rain", "Showers", "Partly", "Cloudy", "cloudy",
     "overcast", "Fair", "sunny", "Hazy", "haze", "Windy"}

RECURSIVE TextsOfLen(_)
TextsOfLen(n) ==
    IF n = 0 THEN {<< >>}
    ELSE {Append(t, w) : t \in TextsOfLen(n - 1), w \in Vocabulary}

Texts == UNION {TextsOfLen(n) : n \in 1..MaxWords}

TextPayload(t) ==
    Data(<< Item(General(Str(t), NoRange, NoRange),
                 << Period(At(7), Str(t), Null) >>) >>)

ClassifyInit ==
    /\ events = << >>
    /\ activeFilter = "all"
    /\ rendered = << >>
    /\ cards = << >>
    /\ weather = NoWeather
    /\ weatherDom = showWeatherLoading
    /\ forecastGrid = << >>
    /\ loadingShown = TRUE
    /\ initPc = "json"
    /\ pendingMore = 0
    /\ startedMore = 0
    /\ joinCalls = 0
    /\ eventsLoaded = FALSE
    /\ lastGood = NoWeather
    /\ response \in {Answer("json", TextPayload(t)) : t \in Texts}
    /\ last = NoCmd

ClassifyNext == jsonResolves

ClassifySpec == ClassifyInit /\ [][ClassifyNext]_vars

----------------------------------------------------------------------------
(* Periods: the page has received a body with a list of periods *)

\* the entries of the lists: a morning with an east text, an afternoon with
\* a central text only, and null
ListPeriods ==
    { Period(At(7), Str(<<"Showers">>), Null),
      Period(At(13), Null, Str(<<"Cloudy">>)),
      NullPeriod }

RECURSIVE PeriodLists(_)
PeriodLists(n) ==
    IF n = 0 THEN {<< >>}
    ELSE {Append(ps, q) : ps \in PeriodLists(n - 1), q \in ListPeriods}

\* time.start: absent, or a timestamp of any hour of the day
StartTimes == {NoTime} \cup {At(h) : h \in 0..23}

\* regions.east: absent, '', or a text
EastTexts == {Null, Str(<< >>), Str(<<"Showers">>), Str(<<"Cloudy">>)}

\* regions.central: absent or a text
CentralTexts == {Null, Str(<<"Thundery">>), Str(<<"Hazy">>)}

SinglePeriods ==
    { << Period(st, e, c) >> : st \in StartTimes, e \in EastTexts, c \in CentralTexts }

PeriodsPayload(ps) ==
    Data(<< Item(General(Str(<<"Fair">>), Range(25, 31), Range(70, 90)), ps) >>)

PeriodsInit ==
    /\ events = << >>
    /\ activeFilter = "all"
    /\ rendered = << >>
    /\ cards = << >>
    /\ weather = NoWeather
    /\ weatherDom = showWeatherLoading
    /\ forecastGrid = << >>
    /\ loadingShown = TRUE
    /\ initPc = "json"
    /\ pendingMore = 0
    /\ startedMore = 0
    /\ joinCalls = 0
    /\ eventsLoaded = FALSE
    /\ lastGood = NoWeather
    /\ response \in {Answer("json", PeriodsPayload(ps)) :
                        ps \in SinglePeriods \cup UNION {PeriodLists(n) : n \in 0..MaxPeriods}}
    /\ last = NoCmd

PeriodsNext == jsonResolves

PeriodsSpec == PeriodsInit /\ [][PeriodsNext]_vars

TypeOK ==
    /\ activeFilter \in FilterTags
    /\ loadingShown \in BOOLEAN
    /\ pendingMore \in 0..MaxLoadMore
    /\ startedMore \in 0..MaxLoadMore
    /\ joinCalls \in 0..MaxJoin
    /\ initPc \in {"fetch", "json", "timer", "done"}
    /\ eventsLoaded \in BOOLEAN

----------------------------------------------------------------------------
(* Properties *)

\* the view the catalog defines: every stored event under "all", otherwise the
\* stored events of the category, in stored order
CurrentView(evs, tag) ==
    IF tag = "all" THEN evs ELSE SelectSeq(evs, LAMBDA e : e.category = tag)

Present(evs, eventId) == \E i \in 1..Len(evs) : evs[i].id = eventId

InSeq(e, evs) == \E k \in 1..Len(evs) : evs[k] = e

\* C1: after every command the event list last handed to the renderer is the
\* current view: the stored events filtered by activeFilter, in stored order.
C1_RenderedIsCurrentView ==
    rendered = CurrentView(events, activeFilter)

\* C2: no two events stored in the catalog have the same id.
C2_UniqueIds ==
    \A i, j \in 1..Len(events) : i # j => events[i].id # events[j].id

\* C3: an event that is in the catalog is in the catalog in the next state,
\* whatever step is taken (so it is never removed).
C3_NeverRemoved ==
    [][\A i \in 1..Len(events) : Present(events', events[i].id)]_vars

\* C4: the initial events are eventually loaded, also in the behaviours in
\* which the weather provider never answers.
C4_EventsEventuallyReady ==
    <>eventsLoaded

\* C5: a step taken before the initial load has completed, and that does not
\* complete it, changes neither the stored events nor activeFilter nor the
\* rendered list.
C5_NoCommandBeforeReady ==
    [][(~eventsLoaded /\ ~eventsLoaded') => UNCHANGED catalogVars]_vars

\* C6: when the weather widget shows the error state, the forecast of an
\* earlier successful fetch is neither held in state.weather nor shown as
\* period cards.
C6_NoStaleForecastOnError ==
    (weatherDom.state = "error" /\ lastGood.set) =>
        /\ weather # lastGood
        /\ forecastGrid # updateForecastDisplay(lastGood.periods)

\* C7: the step in which loadEvents completes stores the supplied events and
\* leaves activeFilter = "all".
C7_LoadResetsFilter ==
    [][(initPc # "timer" /\ initPc' = "timer") =>
          (events' = mockEvents /\ activeFilter' = "all")]_vars

\* C8: while a loadMore is pending, a step that is not the completion of a
\* loadMore changes neither the stored events nor activeFilter nor the
\* rendered list.
C8_LoadMoreRunsToCompletion ==
    [][(pendingMore > 0 /\ pendingMore' >= pendingMore) => UNCHANGED catalogVars]_vars

\* C9: a joinEvent(id) step with id present adds exactly 1 to participants of
\* one event with that id and leaves every other event, the order, the other
\* fields and activeFilter as they were; the event stays in the current view
\* if it was in it.
C9_JoinFrame ==
    [][(joinCalls' = joinCalls + 1 /\ Present(events, last'.id)) =>
          /\ activeFilter' = activeFilter
          /\ Len(events') = Len(events)
          /\ \E i \in 1..Len(events) :
                /\ events[i].id = last'.id
                /\ events'[i].participants = events[i].participants + 1
                /\ events'[i].id = events[i].id
                /\ events'[i].category = events[i].category
                /\ \A j \in 1..Len(events) : j # i => events'[j] = events[j]
                /\ InSeq(events[i], CurrentView(events, activeFilter))
                      => InSeq(events'[i], CurrentView(events', activeFilter'))]_vars

\* a join of event 4 under the filter "weekend" was rendered with the new count
C9_Witness ==
    /\ last.op = "join" /\ last.id = 4 /\ last.n = 1
    /\ activeFilter = "weekend"
    /\ events = mockEvents \o <<Event(4, "weekend", 7), newEvents[2]>>
    /\ rendered = <<mockEvents[1], Event(4, "weekend", 7)>>

\* C10: after n joinEvent calls in a row on the same present id, the first
\* event with that id has exactly n participants more than before the first
\* of these calls.
C10_JoinsAddUp ==
    (last.op = "join" /\ Present(events, last.id)) =>
        \E i \in 1..Len(events) :
            /\ events[i].id = last.id
            /\ \A j \in 1..(i-1) : events[j].id # last.id
            /\ events[i].participants = last.base + last.n

\* MaxJoin joins in a row (repeated clicks) on event 2
C10_Witness ==
    /\ last.op = "join" /\ last.id = 2 /\ last.n = MaxJoin
    /\ InSeq(Event(2, "today", 8 + MaxJoin), events)

\* C11: a joinEvent(id) step with an id no stored event has changes neither
\* the stored events nor activeFilter nor the rendered list and shows no
\* notification.
C11_JoinUnknownIsNoOp ==
    [][(joinCalls' = joinCalls + 1 /\ ~Present(events, last'.id)) =>
          (UNCHANGED catalogVars /\ last'.note = "none")]_vars

\* joinEvent(9) was called on a loaded catalog
C11_Witness ==
    /\ last.op = "join" /\ last.id = 9 /\ last.note = "none"
    /\ eventsLoaded /\ Len(events) = Len(mockEvents) + Len(newEvents)

\* C12: a filterEvents(tag) step sets activeFilter to tag, renders the stored
\* events of that category in stored order (all of them for "all") and leaves
\* the stored events unchanged.
C12_SetFilterStable ==
    [][last'.op = "filter" =>
          /\ activeFilter' = last'.tag
          /\ rendered' = CurrentView(events, last'.tag)
          /\ events' = events]_vars

\* filterEvents("weekend") on the five events showed events 1 and 4
C12_Witness ==
    /\ last.op = "filter" /\ last.tag = "weekend"
    /\ events = mockEvents \o newEvents
    /\ rendered = <<mockEvents[1], newEvents[1]>>

\* C13: the step that completes a loadMore appends the new events, in the
\* order supplied, after the events stored before, and leaves activeFilter.
C13_AppendAtEnd ==
    [][pendingMore' = pendingMore - 1 =>
          /\ events' = events \o newEvents
          /\ SubSeq(events', 1, Len(events)) = events
          /\ activeFilter' = activeFilter]_vars

\* a loadMore completed on the loaded catalog under the filter "upcoming"
C13_Witness ==
    /\ last.note = "info" /\ pendingMore = 0
    /\ events = mockEvents \o newEvents
    /\ activeFilter = "upcoming"

\* C14: after the step that completes a loadMore under a tag other than
\* "all", the rendered list holds a newly appended event exactly if its
\* category is the tag.
C14_FilterReappliedAfterAppend ==
    [][(pendingMore' = pendingMore - 1 /\ activeFilter # "all") =>
          \A k \in 1..Len(newEvents) :
              InSeq(newEvents[k], rendered') <=> newEvents[k].category = activeFilter]_vars

\* a loadMore completed under "weekend": event 4 is shown, event 5 is not
C14_Witness ==
    /\ last.note = "info" /\ activeFilter = "weekend"
    /\ InSeq(newEvents[2], events)
    /\ rendered = <<mockEvents[1], newEvents[1]>>

\* C15: the step that starts a loadMore changes neither the stored events nor
\* activeFilter nor the rendered list, and the step that completes it keeps
\* every event stored before, unchanged and in place.
C15_LoadMoreAdditive ==
    [][/\ startedMore' = startedMore + 1 => UNCHANGED catalogVars
       /\ pendingMore' = pendingMore - 1 =>
             /\ Len(events') >= Len(events)
             /\ \A i \in 1..Len(events) : events'[i] = events[i]]_vars

\* a loadMore is pending and the loaded list is still displayed
C15_Witness ==
    /\ pendingMore > 0 /\ loadingShown
    /\ events = mockEvents /\ rendered = mockEvents

\* the provider's answer carries at least one forecast entry
HasEntries(resp) ==
    resp.kind = "json" /\ resp.data.hasItems /\ Len(resp.data.items) > 0

\* the step in which a weather attempt, and with it initializeWeatherWidget, ends
AttemptEnds == initPc \in {"fetch", "json"} /\ initPc' \notin {"fetch", "json"}

\* C16: a weather attempt ends in Error, state.weather untouched, when the
\* provider rejects, answers with a non-success status or without entries;
\* it ends in Ready with the forecast when it answers with an entry.
C16_AttemptOutcome ==
    [][(AttemptEnds /\ response'.kind # "badjson") =>
          IF HasEntries(response')
          THEN weatherDom'.state = "data" /\ weather'.set /\ weather' = lastGood'
          ELSE weatherDom'.state = "error" /\ weather' = weather]_vars

\* C17: the step in which a weather attempt fails (rejection, non-success
\* status or no entries) also loads the initial events, and init goes on to
\* its hideLoading timer instead of its catch branch.
C17_WeatherFailureNotFatal ==
    [][(AttemptEnds /\ ~HasEntries(response')) =>
          /\ weatherDom'.state = "error"
          /\ eventsLoaded' /\ events' = mockEvents
          /\ initPc' = "timer"
          /\ last'.note # "init-error"
          /\ loadingShown' = loadingShown]_vars

\* the fetch was rejected and the events are loaded
C17_Witness ==
    /\ response.kind = "reject" /\ weatherDom.state = "error"
    /\ initPc = "timer" /\ eventsLoaded /\ events = mockEvents

\* the first entry of the provider's answer
FirstGeneral(resp) == resp.data.items[1].general

\* C18: once the body of an answer with an entry has been processed, the
\* widget shows the forecast: neither the normalization nor the mapping of
\* the periods has raised an error, whatever is missing or malformed.
C18_NormalizeNeverFails ==
    (initPc = "timer" /\ HasEntries(response)) =>
        /\ weatherDom.state = "data"
        /\ weather.set
        /\ Len(forecastGrid) >= 1

\* C19: in a normalized forecast low <= high holds for the temperature range
\* and for the humidity range.
C19_RangesOrdered ==
    (initPc = "timer" /\ weather.set) =>
        /\ weather.tempLow <= weather.tempHigh
        /\ weather.humLow <= weather.humHigh

\* C20: the forecast normalized from a payload whose first entry has no
\* temperature has the range (24, 32) and the temperature 28.
C20_DefaultTemperature ==
    (initPc = "timer" /\ HasEntries(response)
        /\ ~FirstGeneral(response).temperature.present) =>
        /\ weather.set
        /\ weather.tempLow = 24 /\ weather.tempHigh = 32
        /\ weather.temperature = 28

----------------------------------------------------------------------------
(* The rule table of the condition classifier, as the contract states it *)

\* the keywords of the table that occur in a word, whatever its case
Keywords(w) ==
    CASE w \in {"Thundery", "thundery"} -> {"thunder"}
      [] w \in {"Storm", "storm"}       -> {"storm"}
      [] w \in {"Heavy", "heavy"}       -> {"heavy"}
      [] w \in {"Rain", "rain"}         -> {"rain"}
      [] w \in {"Showers", "showers"}   -> {"showers"}
      [] w \in {"Partly", "partly"}     -> {"partly"}
      [] w \in {"Cloudy", "cloudy"}     -> {"cloudy"}
      [] w \in {"Overcast", "overcast"} -> {"overcast"}
      [] w \in {"Fair", "fair"}         -> {"fair"}
      [] w \in {"Sunny", "sunny"}       -> {"sunny"}
      [] w \in {"Hazy", "hazy"}         -> {"hazy"}
      [] w \in {"Haze", "haze"}         -> {"haze"}
      [] OTHER                          -> {}

Mentions(t, k) == \E i \in 1..Len(t) : k \in Keywords(t[i])

\* the two-word keyword "k1 k2"
MentionsPair(t, k1, k2) ==
    \E i \in 1..(Len(t) - 1) : k1 \in Keywords(t[i]) /\ k2 \in Keywords(t[i+1])

\* the rules of the table, in its order
RuleMatches(r, t) ==
    CASE r = 1 -> Mentions(t, "thunder") \/ Mentions(t, "storm")
      [] r = 2 -> MentionsPair(t, "heavy", "rain") \/ MentionsPair(t, "heavy", "showers")
      [] r = 3 -> Mentions(t, "rain") \/ Mentions(t, "showers")
      [] r = 4 -> Mentions(t, "cloudy") /\ Mentions(t, "partly")
      [] r = 5 -> Mentions(t, "cloudy") \/ Mentions(t, "overcast")
      [] r = 6 -> Mentions(t, "fair") \/ Mentions(t, "sunny")
      [] r = 7 -> Mentions(t, "hazy") \/ Mentions(t, "haze")
      [] OTHER -> TRUE

\* the first rule that matches; 8 is the default
FirstRule(t) == CHOOSE r \in 1..8 : RuleMatches(r, t) /\ \A q \in 1..(r-1) : ~RuleMatches(q, t)

TableIcon(r) ==
    CASE r = 1 -> "stormy"
      [] r = 2 -> "heavy-rain"
      [] r = 3 -> "light-rain"
      [] r = 4 -> "partly-cloudy"
      [] r = 5 -> "cloudy"
      [] r = 6 -> "sunny"
      [] r = 7 -> "haze"
      [] OTHER -> "partly-sunny"

\* the short labels the table gives; the other rules name none
TableLabel(r) ==
    CASE r = 1 -> <<"Thundery">>
      [] r = 2 -> <<"Heavy", "Rain">>
      [] r = 3 -> <<"Showers">>
      [] r = 5 -> <<"Cloudy">>
      [] OTHER -> <<"Fair">>

\* the body of a classification run has been processed
Classified == initPc = "timer" /\ HasEntries(response)

\* the condition text of the body, which is also its period's text
ConditionText == FirstGeneral(response).forecast.s

\* C21: the icon of the current conditions and the icon of the period are
\* both the icon of the first rule of the ordered table that the text
\* matches, whatever the case of its words.
C21_IconByFirstRule ==
    Classified =>
        /\ weather.emoji = TableIcon(FirstRule(ConditionText))
        /\ Len(forecastGrid) = 1
        /\ forecastGrid[1].icon = TableIcon(FirstRule(ConditionText))

\* "Heavy Rain" matches the heavy rain rule before the generic rain rule
C21_Witness ==
    /\ Classified /\ ConditionText = <<"Heavy", "Rain">>
    /\ weather.emoji = "heavy-rain" /\ forecastGrid[1].icon = "heavy-rain"

\* C22: every text that contains both "cloudy" and "partly", in either
\* order and whatever its other words, gets the partly-cloudy icon.
C22_PartlyCloudyAlways ==
    (Classified /\ Mentions(ConditionText, "cloudy") /\ Mentions(ConditionText, "partly")) =>
        weather.emoji = "partly-cloudy"

\* C22 as amended: every text that contains both "cloudy" and "partly", in
\* either order, and matches none of the rules before it in the table
\* (thunder/storm, heavy rain/heavy showers, rain/showers) gets the
\* partly-cloudy icon.
C22_PartlyCloudyUnlessEarlierRule ==
    (Classified /\ Mentions(ConditionText, "cloudy") /\ Mentions(ConditionText, "partly")
        /\ \A r \in 1..3 : ~RuleMatches(r, ConditionText)) =>
        weather.emoji = "partly-cloudy"

\* "cloudy" before "partly", with another word between them
C22_Witness ==
    /\ Classified /\ ConditionText = <<"Cloudy", "Windy", "Partly">>
    /\ weather.emoji = "partly-cloudy"

\* C23: the short label of a period comes from the rule that selects its
\* icon: "Thundery", "Heavy Rain", "Showers", "Cloudy" or "Fair" for the
\* rules thunder/storm, heavy rain, rain/showers, cloudy/overcast, fair/sunny.
C23_LabelFollowsIconRule ==
    (Classified /\ FirstRule(ConditionText) \in {1, 2, 3, 5, 6}) =>
        /\ Len(forecastGrid) = 1
        /\ forecastGrid[1].condition = TableLabel(FirstRule(ConditionText))

----------------------------------------------------------------------------
(* The period rules, as the contract states them *)

\* the periods of the body
PayloadPeriods == response.data.items[1].periods

\* the forecast periods displayed: the cards of the grid other than the
\* placeholder paragraph
ProducedPeriods == SelectSeq(forecastGrid, LAMBDA d : d.name # "")

\* the label of the hour bands
BandLabel(st) ==
    IF ~st.present THEN "Soon"
    ELSE CASE st.hour \in 6..11  -> "Morning"
           [] st.hour \in 12..17 -> "Afternoon"
           [] st.hour \in 18..20 -> "Evening"
           [] OTHER              -> "Night"

\* a text is present when it is a non-empty string
TextPresent(v) == v.t = "str" /\ v.s # << >>

\* the region text by priority: east, then central, then "Fair"
PriorityText(p) ==
    IF TextPresent(p.east) THEN p.east.s
    ELSE IF TextPresent(p.central) THEN p.central.s
    ELSE <<"Fair">>

Min(a, b) == IF a < b THEN a ELSE b

\* C24: the periods displayed are the first min(4, n) entries of the
\* payload's n periods, in payload order: never more than 4, and none when
\* the payload has no periods.
C24_FirstFourPeriods ==
    Classified =>
        /\ Len(ProducedPeriods) = Min(4, Len(PayloadPeriods))
        /\ \A i \in 1..Len(ProducedPeriods) :
              /\ ProducedPeriods[i].name = BandLabel(PayloadPeriods[i].start)
              /\ ProducedPeriods[i].icon = TableIcon(FirstRule(PriorityText(PayloadPeriods[i])))

\* C25: the label of a displayed period is Morning for a start hour in
\* 6..11, Afternoon in 12..17, Evening in 18..20, Night for any other hour,
\* and Soon when the period has no start timestamp.
C25_HourBands ==
    Classified =>
        /\ \A i \in 1..Len(ProducedPeriods) :
              ProducedPeriods[i].name = BandLabel(PayloadPeriods[i].start)
        /\ (Len(PayloadPeriods) = 1 /\ ~PayloadPeriods[1].isNull) => Len(ProducedPeriods) = 1

\* a period starting at 20:00 is labelled Evening
C25_Witness ==
    /\ Classified /\ Len(PayloadPeriods) = 1 /\ PayloadPeriods[1].start = At(20)
    /\ Len(ProducedPeriods) = 1 /\ ProducedPeriods[1].name = "Evening"

\* C26: a displayed period shows the east text when there is one, otherwise
\* the central text when there is one, otherwise "Fair"; a central text
\* never replaces an east text.
C26_RegionPriority ==
    Classified =>
        /\ \A i \in 1..Len(ProducedPeriods) :
              LET p == PayloadPeriods[i] IN
              /\ ProducedPeriods[i].icon = TableIcon(FirstRule(PriorityText(p)))
              /\ (~TextPresent(p.east) /\ ~TextPresent(p.central))
                    => ProducedPeriods[i].condition = <<"Fair">>
        /\ (Len(PayloadPeriods) = 1 /\ ~PayloadPeriods[1].isNull) => Len(ProducedPeriods) = 1

\* east and central are both present and the east text is shown
C26_Witness ==
    /\ Classified /\ Len(PayloadPeriods) = 1
    /\ PayloadPeriods[1].east = Str(<<"Showers">>)
    /\ PayloadPeriods[1].central = Str(<<"Thundery">>)
    /\ Len(ProducedPeriods) = 1 /\ ProducedPeriods[1].icon = "light-rain"

----------------------------------------------------------------------------
(* The catalog commands executed one after another *)

\* join(id) on the catalog: one participant more for the first event with
\* the id, nothing for an id no event has
SeqJoin(evs, eventId) ==
    [i \in 1..Len(evs) |->
        IF evs[i].id = eventId /\ \A j \in 1..(i-1) : evs[j].id # eventId
        THEN Event(evs[i].id, evs[i].category, evs[i].participants + 1)
        ELSE evs[i]]

\* append(more) on the catalog
SeqAppend(evs, more) == evs \o more

\* C28: every interleaving of joinEvent, filterEvents and overlapping
\* loadMoreEvents is an execution of these commands one after another, a
\* loadMore taking its place where it completes: each of their steps changes
\* the stored events (with their participant counts) and activeFilter as
\* the one command run alone on the current catalog would, and the start of
\* a loadMore changes neither.
C28_Serializable ==
    [][/\ (joinCalls' = joinCalls + 1) =>
             (events' = SeqJoin(events, last'.id) /\ activeFilter' = activeFilter)
       /\ (last'.op = "filter") =>
             (events' = events /\ activeFilter' = last'.tag)
       /\ (startedMore' = startedMore + 1) =>
             (events' = events /\ activeFilter' = activeFilter)
       /\ (pendingMore' = pendingMore - 1) =>
             (events' = SeqAppend(events, newEvents) /\ activeFilter' = activeFilter)]_vars

\* one loadMore has completed while a second one is pending, after a join of
\* event 2 and a filterEvents("weekend") that ran during their delay
C28_Witness ==
    /\ startedMore = 2 /\ pendingMore = 1 /\ last.note = "info"
    /\ activeFilter = "weekend"
    /\ events = <<mockEvents[1], Event(2, "today", 9), mockEvents[3]>> \o newEvents

\* C29: a weather attempt that ends in the error state leaves the stored
\* weather as it was before the attempt.
C29_AttemptAllOrNothing ==
    [][(AttemptEnds /\ weatherDom'.state = "error") => weather' = weather]_vars

\* C30: the loading indicator is shown in every state in which a loadMore is
\* pending.
C30_LoadingShownWhilePending ==
    pendingMore > 0 => loadingShown

\* C27: the cards displayed are, one for one and in order, the events of
\* the list last rendered, for lists of every length; after an empty list
\* has been rendered no card is displayed.
C27_CardsShowRenderedView ==
    cards = rendered

====
